---- MODULE Spec2Model ----
(***************************************************************************)
(* Quiz session state machine of the aptitude-test application, in its two *)
(* variants:                                                               *)
(*   "MP"  src/Major_Project/ReportGenerator-for-LLMBasedMCQGenerator/app.py *)
(*   "PF"  src/project_files/app.py                                        *)
(* The Flask session is a dictionary (a function whose domain is the set   *)
(* of keys present); every handler is one action.  The language-model      *)
(* call, the identity service, the document store, the random source and   *)
(* the wall clock are inputs.  The options of a question play no part in   *)
(* any handler and are left out of the question records.                   *)
(***************************************************************************)
EXTENDS Integers, Sequences, FiniteSets, TLC

VARIABLES
    app,      \* which variant runs: "MP" or "PF"
    session,  \* the Flask session of the one browser: key -> value
    now,      \* time.time(), in whole seconds
    resp      \* what the last handler returned (and the calls it made)

vars == <<app, session, now, resp>>

(***************************************************************************)
(* Bounds of the model.                                                    *)
(***************************************************************************)
\* largest num_questions the form sends in the session specification (MP, PF)
MaxRequest == 3
MaxRequestPF == 1
\* lists longer than this are shuffled by a few permutations only
MaxShuffleLen == 2
\* PF's running score is followed up to this value
MaxScore == 2
\* the assembly specification: requests from -MaxNegRequest to 30 + MaxExcess
MaxNegRequest == 2
MaxExcess == 2
\* the timer specification: the clock's two steps, its end, the larger request
ShortTick == 50
LongTick == 251
MaxTimerClock == 301
TimerQuestions == 5
\* the expiry specification: the clock's step, its end, the largest request
ExpiryTick == 61
MaxExpiryClock == 130
MaxExpiryRequest == 1

(***************************************************************************)
(* Program constants.                                                      *)
(***************************************************************************)
\* min(int(num_questions), 30)
MaxQuestions == 30
\* len(all_questions) * 60 ; session['time_per_question'] = 60
SecondsPerQuestion == 60

Apps == {"MP", "PF"}

SUBJECTS == <<"Logical Reasoning", "Quantitative Aptitude", "Verbal Ability">>

\* SUBJECT_MAP.get(subject, 'Unknown')
SUBJECT_MAP(subject) ==
    CASE subject = "Logical Reasoning" -> "LR"
      [] subject = "Quantitative Aptitude" -> "QA"
      [] subject = "Verbal Ability" -> "VA"
      [] OTHER -> "Unknown"

(***************************************************************************)
(* Python values and dictionaries.                                         *)
(***************************************************************************)
None == "None"

EmptyDict == [k \in {} |-> None]

Has(d, k) == k \in DOMAIN d

Get(d, k, default) == IF k \in DOMAIN d THEN d[k] ELSE default

\* d[k] = v for every k -> v of upd
Update(d, upd) == upd @@ d

\* d.pop(k, None) for every k of keys
Pop(d, keys) == [k \in DOMAIN d \ keys |-> d[k]]

Min(a, b) == IF a <= b THEN a ELSE b

Max(a, b) == IF a >= b THEN a ELSE b

\* s[:n], n negative counting from the end
Slice(s, n) ==
    LET stop == IF n >= 0 THEN Min(n, Len(s)) ELSE Max(Len(s) + n, 0)
    IN  SubSeq(s, 1, stop)

\* whether s[i] exists: -len(s) <= i < len(s)
InRange(s, i) == -Len(s) <= i /\ i < Len(s)

\* the 1-based position of s[i], i a valid Python index
Pos(s, i) == IF i >= 0 THEN i + 1 ELSE Len(s) + i + 1

\* str(i)
str(i) == ToString(i)

(***************************************************************************)
(* Questions.  A question is a dictionary; "question" is its text, kept as *)
(* the set of lower-case words that occur in it.                           *)
(***************************************************************************)
MPDefaults(subject) ==
    CASE subject = "Logical Reasoning" ->
           << [chapter |-> "Syllogisms", question |-> {"bloops"},
               correct_answer |-> "A", solution |-> "transitive"] >>
      [] subject = "Quantitative Aptitude" ->
           << [chapter |-> "Speed, Time & Distance", question |-> {"train", "km", "hour"},
               correct_answer |-> "B", solution |-> "speed"] >>
      [] subject = "Verbal Ability" ->
           << [chapter |-> "Synonyms", question |-> {"synonym"},
               correct_answer |-> "B", solution |-> "kind"] >>
      [] OTHER -> << >>

PFDefaults(subject) ==
    CASE subject = "Logical Reasoning" ->
           << [question |-> {"bloops"}, correct_answer |-> "A", solution |-> "transitive"] >>
      [] subject = "Quantitative Aptitude" ->
           << [question |-> {"train", "km", "hour"}, correct_answer |-> "B",
               solution |-> "speed"] >>
      [] subject = "Verbal Ability" ->
           << [question |-> {"synonym"}, correct_answer |-> "B", solution |-> "kind"],
              [question |-> {"grammar", "sentence"}, correct_answer |-> "C",
               solution |-> "agreement"] >>
      [] OTHER -> << >>

\* defaults.get(subject, [])[:num_questions]
get_default_questions(a, subject, num_questions) ==
    Slice(IF a = "MP" THEN MPDefaults(subject) ELSE PFDefaults(subject), num_questions)

invalid_words(subject) ==
    CASE subject = "Verbal Ability" ->
           {"calculate", "percentage", "profit", "loss", "ratio", "sum", "average",
            "km", "hour"}
      [] subject = "Quantitative Aptitude" ->
           {"synonym", "antonym", "grammar", "sentence", "passage", "reading"}
      [] subject = "Logical Reasoning" ->
           {"calculate", "percentage", "synonym", "antonym", "grammar"}
      [] OTHER -> {}

\* no invalid word of the subject occurs in the text
is_question_valid(q, subject) ==
    Get(q, "question", {}) \cap invalid_words(subject) = {}

(***************************************************************************)
(* The language model's answer to one generate_questions call: a failure   *)
(* of the call or of the parse, or the list under the key "questions".     *)
(* The list alternates two questions; the second has neither chapter nor   *)
(* solution.                                                               *)
(***************************************************************************)
UpstreamFailure == [failed |-> TRUE]

\* the model answered with this list under "questions"
Answered(questions) == [failed |-> FALSE, questions |-> questions]

UpstreamQuestion(j) ==
    IF j % 2 = 1
    THEN [chapter |-> "Ratios", question |-> {"ratio"}, correct_answer |-> "A",
          solution |-> "worked"]
    ELSE [question |-> {"synonym"}, correct_answer |-> "B"]

UpstreamList(u) == [j \in 1..u |-> UpstreamQuestion(j)]

\* the list lengths the language model may answer with when asked for count
ExactDelivery == "exact"

AnyDelivery == "any"

Delivery(mode, count) ==
    IF mode = ExactDelivery THEN {count} ELSE {0, count - 1, count, count + 1}

\* what the language model may answer when asked for count questions
Upstream(count, mode) ==
    {UpstreamFailure} \cup {Answered(UpstreamList(u)) : u \in Delivery(mode, count) \cap Nat}

\* if 'solution' not in q or not q['solution']: q['solution'] = ...
with_solution(q) ==
    IF Get(q, "solution", "") = ""
    THEN Update(q, [solution |-> "Detailed solution not available for this question"])
    ELSE q

\* PF: the loop over the upstream questions, from the first one left
RECURSIVE filter_questions(_, _, _, _)
filter_questions(questions, subject, num_questions, filtered_questions) ==
    IF questions = << >> THEN filtered_questions
    ELSE LET q == Head(questions)
             f == IF is_question_valid(q, subject)
                  THEN Append(filtered_questions, with_solution(q))
                  ELSE filtered_questions
         IN  IF Len(f) >= num_questions THEN f
             ELSE filter_questions(Tail(questions), subject, num_questions, f)

\* faulty variant: the padded list is returned whole (no [:num_questions])
generate_questions_MP_untruncated(subject, difficulty, num_questions, upstream) ==
    IF upstream.failed
    THEN get_default_questions("MP", subject, num_questions)
    ELSE IF Len(upstream.questions) < num_questions
         THEN upstream.questions
              \o get_default_questions("MP", subject,
                                       num_questions - Len(upstream.questions))
         ELSE upstream.questions

generate_questions_MP(subject, difficulty, num_questions, upstream) ==
    IF upstream.failed
    THEN get_default_questions("MP", subject, num_questions)
    ELSE LET needed == num_questions - Len(upstream.questions)
             questions ==
                 IF Len(upstream.questions) < num_questions
                 THEN upstream.questions \o get_default_questions("MP", subject, needed)
                 ELSE upstream.questions
         IN  Slice(questions, num_questions)

generate_questions_PF(subject, difficulty, num_questions, upstream) ==
    IF upstream.failed
    THEN get_default_questions("PF", subject, num_questions)
    ELSE LET filtered == filter_questions(upstream.questions, subject, num_questions, << >>)
             filtered_questions ==
                 IF Len(filtered) < num_questions
                 THEN filtered \o get_default_questions("PF", subject,
                                                        num_questions - Len(filtered))
                 ELSE filtered
         IN  Slice(filtered_questions, num_questions)

generate_questions(a, subject, difficulty, num_questions, upstream) ==
    IF a = "MP"
    THEN generate_questions_MP(subject, difficulty, num_questions, upstream)
    ELSE generate_questions_PF(subject, difficulty, num_questions, upstream)

(***************************************************************************)
(* index (POST): the distribution over the selected subjects.              *)
(***************************************************************************)
\* faulty variant: the request is not clamped
clamp_none(form_num) == form_num

\* min(int(request.form.get('num_questions', 5)), 30)
clamp(form_num) == Min(form_num, MaxQuestions)

\* faulty variant: the extra question goes to one subject too many (i <= remainder)
q_count_one_more(num_questions, k, i) ==
    num_questions \div k + (IF i <= num_questions % k THEN 1 ELSE 0)

\* questions_per_subject + (1 if i < remaining_questions else 0), i from 0
q_count(num_questions, k, i) ==
    LET questions_per_subject == num_questions \div k
        remaining_questions == num_questions % k
    IN  questions_per_subject + (IF i < remaining_questions THEN 1 ELSE 0)

\* whether the loop calls generate_questions for a subject given q_count
calls_source(a, count) == IF a = "MP" THEN count > 0 ELSE TRUE

NotCalled == [called |-> FALSE]

\* the sequences that pick one element of each set of a sequence of sets
RECURSIVE Choices(_)
Choices(sets) ==
    IF sets = << >> THEN { << >> }
    ELSE {<<h>> \o t : h \in Head(sets), t \in Choices(Tail(sets))}

\* one upstream answer for every subject of the list (NotCalled: no call)
UpstreamAnswers(a, selected_subjects, num_questions, mode) ==
    LET k == Len(selected_subjects)
    IN  Choices([i \in 1..k |->
                   LET c == q_count(num_questions, k, i - 1)
                   IN  IF calls_source(a, c) THEN Upstream(c, mode) ELSE {NotCalled}])

\* q['subject'] = subject ; q.setdefault('chapter', 'General')   (MP only)
tag(a, q, subject) ==
    IF a = "MP"
    THEN Update(Update(q, [subject |-> subject]),
                IF Has(q, "chapter") THEN EmptyDict ELSE [chapter |-> "General"])
    ELSE q

\* the generate_questions calls of one index POST, in order
source_calls(a, selected_subjects, num_questions, ups) ==
    LET k == Len(selected_subjects)
        call(i) == LET c == q_count(num_questions, k, i - 1)
                   IN  [subject |-> selected_subjects[i], count |-> c,
                        upstream |-> ups[i],
                        result |-> generate_questions(a, selected_subjects[i], "Medium",
                                                      c, ups[i])]
    IN  SelectSeq([i \in 1..k |-> IF Has(ups[i], "called") THEN NotCalled ELSE call(i)],
                  LAMBDA c : ~Has(c, "called"))

\* the list built by the loop, before the shuffle
RECURSIVE extend_all(_, _, _)
extend_all(a, calls, questions) ==
    IF calls = << >> THEN questions
    ELSE LET c == Head(calls)
             subject_questions == [j \in 1..Len(c.result) |-> tag(a, c.result[j], c.subject)]
         IN  extend_all(a, Tail(calls), questions \o subject_questions)

Reverse(s) == [i \in 1..Len(s) |-> s[Len(s) + 1 - i]]

Rotate(s) == IF s = << >> THEN s ELSE Append(Tail(s), Head(s))

\* faulty variant: the shuffle loses the first question
Shuffles_losing(s) == IF s = << >> THEN {s} ELSE {Tail(s)}

\* random.shuffle(questions): the orders the random source may produce
Shuffles(s) ==
    IF Len(s) <= MaxShuffleLen
    THEN {[i \in 1..Len(s) |-> s[p[i]]] : p \in Permutations(1..Len(s))}
    ELSE {s, Reverse(s), Rotate(s)}

(***************************************************************************)
(* The identity service: one account.  MP runs load_logged_in_user before  *)
(* every request; PF has no such hook.                                     *)
(***************************************************************************)
UserIds == {"u1"}

EmailOf(uid) == "u1@example.com"

\* the answers auth.get_user may give: found or UserNotFoundError
AuthLookups(s) == IF app = "MP" /\ Has(s, "user_id") THEN BOOLEAN ELSE {TRUE}

\* g after the hook: g.user and g.guest_id, a key absent when the value is None
load_logged_in_user(s, found) ==
    IF app # "MP" THEN EmptyDict
    ELSE (IF Has(s, "user_id") /\ found
          THEN [user |-> [uid |-> s.user_id, email |-> EmailOf(s.user_id)]]
          ELSE EmptyDict)
         @@ (IF Has(s, "guest_id") THEN [guest_id |-> s.guest_id] ELSE EmptyDict)

\* the session after the hook: session.clear() when the user is not found
hooked_session(s, found) ==
    IF app = "MP" /\ Has(s, "user_id") /\ ~found THEN EmptyDict ELSE s

(***************************************************************************)
(* index (POST): start a session.                                          *)
(***************************************************************************)
\* faulty variant: the ledger and the score are left as they were
new_session_keeps_answers(a, questions, timed_test, selected_subjects, t) ==
    IF a = "MP"
    THEN [questions |-> questions, start_time |-> t, timed_test |-> timed_test]
    ELSE [questions |-> questions, current_question |-> 0,
          timed_test |-> timed_test, dark_mode |-> FALSE, start_time |-> t,
          time_per_question |-> SecondsPerQuestion,
          visited |-> [j \in 1..Len(questions) |-> FALSE],
          selected_subjects |-> selected_subjects]

\* what the session held when the request came in: no quiz, a quiz without
\* answers, or a quiz with answers
prior_state(s) ==
    IF ~Has(s, "questions") THEN "none"
    ELSE IF \/ Get(s, "user_answers", EmptyDict) # EmptyDict
            \/ \E j \in 1..Len(Get(s, "answered", << >>)) : s.answered[j]
         THEN "answered"
         ELSE "active"

new_session(a, questions, timed_test, selected_subjects, t) ==
    IF a = "MP"
    THEN [questions |-> questions, score |-> 0, start_time |-> t,
          timed_test |-> timed_test, user_answers |-> EmptyDict]
    ELSE [questions |-> questions, current_question |-> 0, score |-> 0,
          timed_test |-> timed_test, dark_mode |-> FALSE, start_time |-> t,
          time_per_question |-> SecondsPerQuestion,
          answered |-> [j \in 1..Len(questions) |-> FALSE],
          visited |-> [j \in 1..Len(questions) |-> FALSE],
          selected_subjects |-> selected_subjects]

index(subject_lists, requests, timed_choices, mode) ==
    \E found \in AuthLookups(session), selected_subjects \in subject_lists,
       form_num \in requests, timed_test \in timed_choices :
        LET s == hooked_session(session, found)
            g == load_logged_in_user(session, found)
            num_questions == clamp(form_num)
        IN  IF app = "MP" /\ ~Has(g, "user") /\ ~Has(g, "guest_id")
            THEN /\ session' = s
                 /\ resp' = [op |-> "index", status |-> "login"]
                 /\ UNCHANGED <<app, now>>
            ELSE \E ups \in UpstreamAnswers(app, selected_subjects, num_questions, mode) :
                   LET calls == source_calls(app, selected_subjects, num_questions, ups)
                       built == extend_all(app, calls, << >>)
                   IN  \E questions \in Shuffles(built) :
                         /\ session' = Update(s, new_session(app, questions, timed_test,
                                                             selected_subjects, now))
                         /\ resp' = [op |-> "index", status |-> "quiz",
                                     form_num |-> form_num, prior |-> prior_state(s),
                                     selected_subjects |-> selected_subjects,
                                     calls |-> calls, built |-> built]
                         /\ UNCHANGED <<app, now>>

(***************************************************************************)
(* quiz (GET).                                                             *)
(***************************************************************************)
\* faulty variant: the remaining time is not cut off at 0
time_left_unclamped(questions, seconds, start_time, t) ==
    Len(questions) * seconds - (t - start_time)

\* max(0, total_time - elapsed)
time_left(questions, seconds, start_time, t) ==
    LET elapsed == t - start_time
        total_time == Len(questions) * seconds
    IN  Max(0, total_time - elapsed)

\* the time_left a response carries: the key is absent when it is None
reported_time(s, seconds, t) ==
    IF Get(s, "timed_test", FALSE)
    THEN [time_left |-> time_left(s.questions, seconds, s.start_time, t)]
    ELSE EmptyDict

quiz_MP ==
    \E found \in AuthLookups(session) :
        LET s == hooked_session(session, found)
        IN  /\ session' = s
            /\ resp' = IF ~Has(s, "questions")
                       THEN [op |-> "quiz", status |-> "index"]
                       ELSE Update([op |-> "quiz", status |-> "ok",
                                    total_questions |-> Len(s.questions),
                                    timed_test |-> Get(s, "timed_test", FALSE)],
                                   reported_time(s, SecondsPerQuestion, now))
            /\ UNCHANGED <<app, now>>

quiz_PF ==
    IF ~Has(session, "questions")
    THEN /\ resp' = [op |-> "quiz", status |-> "index"]
         /\ UNCHANGED <<app, session, now>>
    ELSE LET current_idx == session.current_question
         IN  IF ~InRange(session.visited, current_idx)
             THEN \* session['visited'][current_idx] raises IndexError
                  /\ resp' = [op |-> "quiz", status |-> "error"]
                  /\ UNCHANGED <<app, session, now>>
             ELSE LET p == Pos(session.visited, current_idx)
                      s == [session EXCEPT !.visited[p] = TRUE,
                                           !.questions[p] = with_solution(@)]
                  IN  /\ session' = s
                      /\ resp' = Update([op |-> "quiz", status |-> "ok",
                                         question_num |-> current_idx + 1,
                                         total_questions |-> Len(s.questions),
                                         timed_test |-> Get(s, "timed_test", FALSE)],
                                        reported_time(s, s.time_per_question, now))
                      /\ UNCHANGED <<app, now>>

quiz == (app = "MP" /\ quiz_MP) \/ (app = "PF" /\ quiz_PF)

(***************************************************************************)
(* check_answer (POST).  data is the JSON body: a key is absent when the   *)
(* client left it out.                                                     *)
(***************************************************************************)
SelectedOptions == {"A", "B"}

\* the bodies a client may send to a session of n questions
AnswerBodies(n) ==
    {[selected_option |-> o] : o \in SelectedOptions} \cup
    {[selected_option |-> o, question_index |-> i] : o \in SelectedOptions, i \in -1..n}

\* faulty variant: the upper bound is inclusive (question_index <= len)
invalid_index_inclusive(data, all_questions) ==
    \/ ~Has(data, "question_index")
    \/ ~(0 <= data.question_index /\ data.question_index <= Len(all_questions))

\* question_index is None or not (0 <= question_index < len(all_questions))
invalid_index(data, all_questions) ==
    \/ ~Has(data, "question_index")
    \/ ~(0 <= data.question_index /\ data.question_index < Len(all_questions))

\* faulty variant: the record is filed under the next index
record_answer_next(user_answers, question_index, selected_option, is_correct) ==
    Update(user_answers,
           str(question_index + 1) :> [user_answer |-> selected_option,
                                       is_correct |-> is_correct])

\* faulty variant: the ledger is replaced by the one new record
record_answer_alone(user_answers, question_index, selected_option, is_correct) ==
    str(question_index) :> [user_answer |-> selected_option, is_correct |-> is_correct]

\* session['user_answers'][str(question_index)] = {...}
record_answer(user_answers, question_index, selected_option, is_correct) ==
    Update(user_answers,
           str(question_index) :> [user_answer |-> selected_option,
                                   is_correct |-> is_correct])

check_answer_MP ==
    \E found \in AuthLookups(session) :
        LET s == hooked_session(session, found)
            n == IF Has(s, "questions") THEN Len(s.questions) ELSE 0
        IN  \E data \in AnswerBodies(n) :
              IF ~Has(s, "questions")
              THEN /\ session' = s
                   /\ resp' = [op |-> "check_answer", status |-> "session_expired",
                               data |-> data]
                   /\ UNCHANGED <<app, now>>
              ELSE IF invalid_index(data, s.questions)
              THEN /\ session' = s
                   /\ resp' = [op |-> "check_answer", status |-> "invalid_index",
                               data |-> data]
                   /\ UNCHANGED <<app, now>>
              ELSE IF ~InRange(s.questions, data.question_index)
              THEN \* all_questions[question_index] raises IndexError
                   /\ session' = s
                   /\ resp' = [op |-> "check_answer", status |-> "error", data |-> data]
                   /\ UNCHANGED <<app, now>>
              ELSE LET question == s.questions[Pos(s.questions, data.question_index)]
                       is_correct == (data.selected_option = question.correct_answer)
                   IN  /\ session' = [s EXCEPT !.user_answers =
                                         record_answer(@, data.question_index,
                                                       data.selected_option, is_correct)]
                       /\ resp' = [op |-> "check_answer", status |-> "ok", data |-> data,
                                   is_correct |-> is_correct,
                                   correct_answer |-> question.correct_answer,
                                   solution |-> Get(question, "solution",
                                                    "Solution not available.")]
                       /\ UNCHANGED <<app, now>>

\* PF: the score after one submission
add_score(score, is_correct) == IF is_correct THEN score + 1 ELSE score

check_answer_PF ==
    \E data \in AnswerBodies(0) :
        IF ~Has(session, "questions")
        THEN /\ resp' = [op |-> "check_answer", status |-> "session_expired", data |-> data]
             /\ UNCHANGED <<app, session, now>>
        ELSE LET current_idx == session.current_question
                 questions == session.questions
             IN  IF ~InRange(session.answered, current_idx)
                 THEN \* session['answered'][current_idx] raises IndexError
                      /\ resp' = [op |-> "check_answer", status |-> "error", data |-> data]
                      /\ UNCHANGED <<app, session, now>>
                 ELSE LET p == Pos(session.answered, current_idx)
                          current_question == questions[p]
                          is_correct ==
                              (data.selected_option = current_question.correct_answer)
                          score == add_score(session.score, is_correct)
                          has_next == current_idx + 1 < Len(questions)
                          s == [session EXCEPT
                                  !.answered[p] = TRUE,
                                  !.score = score,
                                  !.current_question = IF has_next THEN @ + 1 ELSE @]
                      IN  /\ score <= MaxScore
                          /\ session' = s
                          /\ resp' = Update([op |-> "check_answer", status |-> "ok",
                                             data |-> data, current_idx |-> current_idx,
                                             is_correct |-> is_correct,
                                             correct_answer |->
                                                 current_question.correct_answer,
                                             score |-> score,
                                             total_questions |-> Len(questions),
                                             has_next |-> has_next],
                                            reported_time(s, s.time_per_question, now))
                          /\ UNCHANGED <<app, now>>

check_answer == (app = "MP" /\ check_answer_MP) \/ (app = "PF" /\ check_answer_PF)

(***************************************************************************)
(* set_question (POST, PF only).  An exception after the first assignment  *)
(* leaves the session as the server's error handling has it: saved with    *)
(* the assignment (Flask's own 500 response) or not saved (debug mode).    *)
(***************************************************************************)
set_question ==
    /\ app = "PF"
    /\ IF ~Has(session, "questions")
       THEN /\ resp' = [op |-> "set_question", status |-> "session_expired"]
            /\ UNCHANGED <<app, session, now>>
       ELSE \E question_num \in 0..(Len(session.questions) + 1) :
              LET idx == question_num - 1
                  moved == [session EXCEPT !.current_question = idx]
              IN  IF ~InRange(session.visited, idx)
                  THEN /\ session' \in {session, moved}
                       /\ resp' = [op |-> "set_question", status |-> "error",
                                   question_num |-> question_num]
                       /\ UNCHANGED <<app, now>>
                  ELSE /\ session' = [moved EXCEPT
                                        !.visited[Pos(session.visited, idx)] = TRUE]
                       /\ resp' = [op |-> "set_question", status |-> "ok",
                                   question_num |-> question_num,
                                   total_questions |-> Len(session.questions)]
                       /\ UNCHANGED <<app, now>>

(***************************************************************************)
(* results (GET).                                                          *)
(***************************************************************************)
\* f"{subject_abbr} -> {q.get('chapter', 'General')}"
topic_of(q) ==
    SUBJECT_MAP(Get(q, "subject", None)) \o " -> " \o Get(q, "chapter", "General")

\* topic_breakdown[topic]: the defaultdict makes the bucket on first use
bucket(topic_breakdown, topic) ==
    Get(topic_breakdown, topic, [correct |-> 0, incorrect |-> 0, total |-> 0])

\* faulty variant: a question adds to its bucket's total only when it is answered
count_question_total_if_answered(acc, i, q, user_answers) ==
    LET topic == topic_of(q)
        b == bucket(acc.topic_breakdown, topic)
        answered == Has(user_answers, str(i))
        right == answered /\ user_answers[str(i)].is_correct
        wrong == answered /\ ~user_answers[str(i)].is_correct
    IN  [correct_count |-> acc.correct_count + (IF right THEN 1 ELSE 0),
         incorrect_count |-> acc.incorrect_count + (IF wrong THEN 1 ELSE 0),
         topic_breakdown |->
             Update(acc.topic_breakdown,
                    topic :> [correct |-> b.correct + (IF right THEN 1 ELSE 0),
                              incorrect |-> b.incorrect + (IF wrong THEN 1 ELSE 0),
                              total |-> b.total + (IF answered THEN 1 ELSE 0)])]

\* faulty variant: a question with no answer counts as incorrect
count_question_unanswered_wrong(acc, i, q, user_answers) ==
    LET topic == topic_of(q)
        b == bucket(acc.topic_breakdown, topic)
        answered == Has(user_answers, str(i))
        right == answered /\ user_answers[str(i)].is_correct
        wrong == ~right
    IN  [correct_count |-> acc.correct_count + (IF right THEN 1 ELSE 0),
         incorrect_count |-> acc.incorrect_count + (IF wrong THEN 1 ELSE 0),
         topic_breakdown |->
             Update(acc.topic_breakdown,
                    topic :> [correct |-> b.correct + (IF right THEN 1 ELSE 0),
                              incorrect |-> b.incorrect + (IF wrong THEN 1 ELSE 0),
                              total |-> b.total + 1])]

\* one pass of the loop body, for all_questions[i] (i from 0)
count_question(acc, i, q, user_answers) ==
    LET topic == topic_of(q)
        b == bucket(acc.topic_breakdown, topic)
        answered == Has(user_answers, str(i))
        right == answered /\ user_answers[str(i)].is_correct
        wrong == answered /\ ~user_answers[str(i)].is_correct
    IN  [correct_count |-> acc.correct_count + (IF right THEN 1 ELSE 0),
         incorrect_count |-> acc.incorrect_count + (IF wrong THEN 1 ELSE 0),
         topic_breakdown |->
             Update(acc.topic_breakdown,
                    topic :> [correct |-> b.correct + (IF right THEN 1 ELSE 0),
                              incorrect |-> b.incorrect + (IF wrong THEN 1 ELSE 0),
                              total |-> b.total + 1])]

\* for i, q in enumerate(all_questions): ...   from index i on
RECURSIVE count_answers(_, _, _, _)
count_answers(acc, i, all_questions, user_answers) ==
    IF i >= Len(all_questions) THEN acc
    ELSE count_answers(count_question(acc, i, all_questions[i + 1], user_answers),
                       i + 1, all_questions, user_answers)

DivisionError == [error |-> "ZeroDivisionError"]

\* faulty variant: the division is not guarded
accuracy_of_unguarded(score, total) ==
    IF total = 0 THEN DivisionError ELSE [num |-> score * 100, den |-> total]

\* (score / total * 100) if total > 0 else 0, as the fraction num/den
accuracy_of(score, total) ==
    IF total > 0 THEN [num |-> score * 100, den |-> total] ELSE [num |-> 0, den |-> 1]

\* round(accuracy, 2), in hundredths (no tie occurs for total <= 30)
round2(accuracy) ==
    (2 * 100 * accuracy.num + accuracy.den) \div (2 * accuracy.den)

\* report_data, with the local accuracy beside the rounded one
report_of(all_questions, user_answers, student_name, total_time_taken) ==
    LET counted == count_answers([correct_count |-> 0, incorrect_count |-> 0,
                                  topic_breakdown |-> EmptyDict],
                                 0, all_questions, user_answers)
        score == counted.correct_count
        total == Len(all_questions)
        accuracy == accuracy_of(score, total)
    IN  IF Has(accuracy, "error") THEN accuracy
        ELSE [student_name |-> student_name,
              score |-> score,
              total_questions |-> total,
              accuracy |-> accuracy,
              accuracy_rounded |-> round2(accuracy),
              correct_count |-> counted.correct_count,
              incorrect_count |-> counted.incorrect_count,
              unanswered_count |-> total - (counted.correct_count
                                            + counted.incorrect_count),
              total_time_taken |-> total_time_taken,
              topic_breakdown |-> counted.topic_breakdown]

\* faulty variant: the ledger is not popped
clear_quiz_keeps_ledger(s) == Pop(s, {"questions", "start_time", "timed_test"})

\* faulty variant: the questions are not popped
clear_quiz_keeps_questions(s) == Pop(s, {"user_answers", "start_time", "timed_test"})

\* the four session.pop calls that end results
clear_quiz(s) == Pop(s, {"questions", "user_answers", "start_time", "timed_test"})

\* faulty variant: the exception of the store write is not caught
save_result_unguarded(g, report_data, store_ok) ==
    [saved |-> store_ok, raised |-> ~store_ok]

\* if g.user: try: ...add(data_to_save)... except Exception: print(...)
save_result(g, report_data, store_ok) ==
    IF Has(g, "user")
    THEN [saved |-> store_ok, raised |-> FALSE]
    ELSE [saved |-> FALSE, raised |-> FALSE]

results_MP ==
    \E found \in AuthLookups(session) :
        LET s == hooked_session(session, found)
            g == load_logged_in_user(session, found)
        IN  IF ~Has(s, "questions")
            THEN /\ session' = s
                 /\ resp' = [op |-> "results", status |-> "index"]
                 /\ UNCHANGED <<app, now>>
            ELSE LET report_data ==
                         report_of(s.questions, Get(s, "user_answers", EmptyDict),
                                   IF Has(g, "user") THEN g.user.email ELSE "Guest",
                                   now - Get(s, "start_time", 0))
                 IN  IF Has(report_data, "error")
                     THEN /\ session' = s
                          /\ resp' = [op |-> "results", status |-> "error"]
                          /\ UNCHANGED <<app, now>>
                     ELSE \E store_ok \in IF Has(g, "user") THEN BOOLEAN ELSE {FALSE} :
                            LET saving == save_result(g, report_data, store_ok)
                            IN  IF saving.raised
                                THEN /\ session' = s
                                     /\ resp' = [op |-> "results", status |-> "error"]
                                     /\ UNCHANGED <<app, now>>
                                ELSE /\ session' = clear_quiz(s)
                                     /\ resp' = [op |-> "results", status |-> "ok",
                                                 score |-> report_data.score,
                                                 total |-> report_data.total_questions,
                                                 report_data |-> report_data,
                                                 saved |-> saving.saved,
                                                 ledger |-> Get(s, "user_answers",
                                                                EmptyDict),
                                                 questions |-> s.questions]
                                     /\ UNCHANGED <<app, now>>

results_PF ==
    IF ~Has(session, "questions")
    THEN /\ resp' = [op |-> "results", status |-> "index"]
         /\ UNCHANGED <<app, session, now>>
    ELSE /\ session' = EmptyDict
         /\ resp' = [op |-> "results", status |-> "ok",
                     score |-> Get(session, "score", 0),
                     total |-> Len(session.questions),
                     answered |-> session.answered,
                     questions |-> session.questions]
         /\ UNCHANGED <<app, now>>

results == (app = "MP" /\ results_MP) \/ (app = "PF" /\ results_PF)

(***************************************************************************)
(* signup, login, logout, continue_as_guest (MP only).                             *)
(***************************************************************************)
\* auth.create_user succeeds (the user is logged in at once) or raises
signup ==
    /\ app = "MP"
    /\ \E found \in AuthLookups(session), uid \in UserIds, created \in BOOLEAN :
         LET s == hooked_session(session, found)
         IN  /\ session' = IF created THEN Update(s, [user_id |-> uid]) ELSE s
             /\ resp' = [op |-> "signup", status |-> IF created THEN "index" ELSE "error"]
             /\ UNCHANGED <<app, now>>

login ==
    /\ app = "MP"
    /\ \E found \in AuthLookups(session), uid \in UserIds, known \in BOOLEAN :
         LET s == hooked_session(session, found)
         IN  /\ session' = IF known THEN Update(s, [user_id |-> uid]) ELSE s
             /\ resp' = [op |-> "login", status |-> IF known THEN "index" ELSE "error"]
             /\ UNCHANGED <<app, now>>

logout ==
    /\ app = "MP"
    /\ session' = EmptyDict
    /\ resp' = [op |-> "logout", status |-> "index"]
    /\ UNCHANGED <<app, now>>

continue_as_guest ==
    /\ app = "MP"
    /\ session' = [guest_id |-> "guest_" \o str(now)]
    /\ resp' = [op |-> "continue_as_guest", status |-> "index"]
    /\ UNCHANGED <<app, now>>

(***************************************************************************)
(* The wall clock.                                                         *)
(***************************************************************************)
\* faulty variant: the clock ends a timed session whose time is used up
Tick_enforcing(steps, limit) ==
    \E d \in steps :
        /\ now + d <= limit
        /\ now' = now + d
        /\ session' = IF /\ Has(session, "questions")
                         /\ Get(session, "timed_test", FALSE)
                         /\ time_left(session.questions, SecondsPerQuestion,
                                      session.start_time, now + d) = 0
                      THEN EmptyDict
                      ELSE session
        /\ UNCHANGED <<app, resp>>

Tick(steps, limit) ==
    \E d \in steps :
        /\ now + d <= limit
        /\ now' = now + d
        /\ UNCHANGED <<app, session, resp>>

(***************************************************************************)
(* Specifications.                                                         *)
(***************************************************************************)
Init ==
    /\ app \in Apps
    /\ session = EmptyDict
    /\ now = 0
    /\ resp = [op |-> "none", status |-> "none"]

\* the subject lists and counts of the session specification
SubjectLists ==
    { << >>, <<"Logical Reasoning">>, <<"Verbal Ability", "Quantitative Aptitude">> }

Requests == 0..(IF app = "MP" THEN MaxRequest ELSE MaxRequestPF)

Next ==
    \/ index(SubjectLists, Requests, {FALSE}, ExactDelivery)
    \/ quiz
    \/ check_answer
    \/ set_question
    \/ results
    \/ continue_as_guest

Spec == Init /\ [][Next]_vars

(***************************************************************************)
(* The assembly specification: one session start from the unstarted state, *)
(* over every request count around the clamp, subject lists of up to three *)
(* subjects (one of them unknown to the application) and every delivery of *)
(* the language model.                                                     *)
(***************************************************************************)
WideSubjectLists ==
    { << >>, <<"Logical Reasoning">>, <<"Verbal Ability", "Quantitative Aptitude">>,
      <<"Logical Reasoning", "Quantitative Aptitude", "Verbal Ability">>,
      <<"History">> }

WideRequests == (0 - MaxNegRequest)..(MaxQuestions + MaxExcess)

NextWide ==
    \/ continue_as_guest
    \/ /\ ~Has(session, "questions")
       /\ index(WideSubjectLists, WideRequests, {FALSE}, AnyDelivery)

SpecWide == Init /\ [][NextWide]_vars

(***************************************************************************)
(* The timer specification: sessions of one and of TimerQuestions          *)
(* questions, timed or not, polled by quiz while the clock advances.       *)
(***************************************************************************)
TimerSubjectLists == { <<"Logical Reasoning">> }

TimerRequests == {1, TimerQuestions}

NextTimer ==
    \/ continue_as_guest
    \/ index(TimerSubjectLists, TimerRequests, BOOLEAN, ExactDelivery)
    \/ quiz
    \/ Tick({ShortTick, LongTick}, MaxTimerClock)

SpecTimer == Init /\ [][NextTimer]_vars

(***************************************************************************)
(* The expiry specification: short sessions, timed or not, that are        *)
(* answered, polled, finished and restarted while the clock advances past  *)
(* the time allowed.                                                       *)
(***************************************************************************)
ExpirySubjectLists == { <<"Verbal Ability">> }

ExpiryRequests == 1..MaxExpiryRequest

NextExpiry ==
    \/ continue_as_guest
    \/ index(ExpirySubjectLists, ExpiryRequests, BOOLEAN, ExactDelivery)
    \/ quiz
    \/ check_answer
    \/ set_question
    \/ results
    \/ Tick({ExpiryTick}, MaxExpiryClock)

SpecExpiry == Init /\ [][NextExpiry]_vars

(***************************************************************************)
(* The account specification: one-question sessions of a guest and of a    *)
(* logged-in user, whose account may be gone when the hook looks it up and *)
(* whose result the document store may fail to save.                       *)
(***************************************************************************)
AuthSubjectLists == { <<"Logical Reasoning">> }

AuthRequests == {1}

NextAuth ==
    \/ signup
    \/ login
    \/ logout
    \/ continue_as_guest
    \/ index(AuthSubjectLists, AuthRequests, {FALSE}, ExactDelivery)
    \/ quiz
    \/ check_answer
    \/ results

SpecAuth == Init /\ [][NextAuth]_vars

(***************************************************************************)
(* Claims.                                                                 *)
(***************************************************************************)
Active == Has(session, "questions")

\* the number of TRUE entries of a list of flags
CountTrue(flags) == Cardinality({j \in 1..Len(flags) : flags[j]})

\* the indices of a question list, from 0
Indices(questions) == 0..(Len(questions) - 1)

\* the report of the last request, when it was a successful results request
ResultsDone == resp.op = "results" /\ resp.status = "ok"

\* C1: after any sequence of successful check_answer calls the ledger holds,
\* for the submitted index, the outcome of the latest submission, and the
\* score that results computes counts every index at most once: it is the
\* number of indices whose latest submission was correct, and so never more
\* than the number of distinct indices answered.
C1_LatestSubmissionCountsOnce ==
    /\ (app = "MP" /\ resp.op = "check_answer" /\ resp.status = "ok") =>
          LET i == resp.data.question_index
          IN  /\ Has(session.user_answers, ToString(i))
              /\ session.user_answers[ToString(i)] =
                     [user_answer |-> resp.data.selected_option,
                      is_correct |-> (resp.data.selected_option
                                      = session.questions[i + 1].correct_answer)]
    /\ (app = "MP" /\ ResultsDone) =>
          /\ resp.score = Cardinality({i \in Indices(resp.questions) :
                                          /\ Has(resp.ledger, ToString(i))
                                          /\ resp.ledger[ToString(i)].is_correct})
          /\ resp.report_data.correct_count = resp.score
    /\ (app = "PF" /\ ResultsDone) => resp.score <= CountTrue(resp.answered)

\* C1 in the MP variant alone, where the score is recomputed from the ledger
C1_HoldsInMP == app = "MP" => C1_LatestSubmissionCountsOnce

\* a successful session start, as the last request
Started == resp.op = "index" /\ resp.status = "quiz"

RECURSIVE SumCounts(_)
SumCounts(calls) == IF calls = << >> THEN 0 ELSE Head(calls).count + SumCounts(Tail(calls))

\* C2: with N the question count of the start (the request, at most 30) and
\* k selected subjects, 1 <= k <= N: subject i (from 0, in selection order) is
\* asked for N \div k + 1 questions if i < N mod k and for N \div k otherwise,
\* the requested counts sum to N, and exactly the first N mod k subjects get
\* the extra one.
C2_Distribution ==
    Started =>
      LET N == Min(resp.form_num, MaxQuestions)
          k == Len(resp.selected_subjects)
          base == N \div k
      IN  (1 <= k /\ k <= N) =>
            /\ Len(resp.calls) = k
            /\ \A i \in 1..k :
                 /\ resp.calls[i].subject = resp.selected_subjects[i]
                 /\ resp.calls[i].count = base + (IF i - 1 < N % k THEN 1 ELSE 0)
            /\ SumCounts(resp.calls) = N
            /\ {i \in 1..k : resp.calls[i].count = base + 1} = 1..(N % k)

\* three subjects share a count that leaves a remainder of two
C2_Witness ==
    /\ Started
    /\ Len(resp.selected_subjects) = 3
    /\ Min(resp.form_num, MaxQuestions) % 3 = 2
    /\ Len(resp.calls) = 3

\* the index of a check_answer body is missing, negative or past the end
BadIndex(data, n) ==
    \/ ~Has(data, "question_index")
    \/ data.question_index < 0
    \/ data.question_index >= n

\* C3: in an Active session of N questions (MP), check_answer with the index
\* missing, negative or >= N answers "invalid index" and leaves the session
\* (ledger, QuestionSet, clock fields) and the clock as they were.
C3_InvalidIndexRejected ==
    [][ (/\ app = "MP"
         /\ Active
         /\ resp'.op = "check_answer"
         /\ BadIndex(resp'.data, Len(session.questions)))
        => (/\ resp'.status = "invalid_index"
            /\ session' = session
            /\ now' = now) ]_vars

\* index N is rejected in a session that already holds an answer
C3_Witness ==
    /\ app = "MP"
    /\ Active
    /\ resp.op = "check_answer"
    /\ resp.status = "invalid_index"
    /\ Has(resp.data, "question_index")
    /\ resp.data.question_index = Len(session.questions)
    /\ DOMAIN session.user_answers # {}

\* C4: results on an Active session leaves no questions; from then on every
\* check_answer answers "session expired" and changes nothing, and questions
\* come back only by a new session start.
C4_FinishedRejectsAnswers ==
    [][ /\ (resp'.op = "results" /\ resp'.status = "ok") => ~Has(session', "questions")
        /\ (~Active /\ resp'.op = "check_answer")
              => (resp'.status = "session_expired" /\ session' = session)
        /\ (~Active /\ Has(session', "questions")) => resp'.op = "index" ]_vars

\* an answer is refused after results (MP keeps the score key of the
\* finished session, which tells this state from the unstarted one)
C4_Witness ==
    /\ app = "MP"
    /\ ~Active
    /\ Has(session, "score")
    /\ resp.op = "check_answer"
    /\ resp.status = "session_expired"

\* the bucket key of a stored question (MP stores subject and chapter)
KeyOf(q) == SUBJECT_MAP(q.subject) \o " -> " \o q.chapter

\* the positions (from 1) of the questions with bucket key K
InBucket(questions, K) == {j \in 1..Len(questions) : KeyOf(questions[j]) = K}

\* whether the ledger records question j (from 1) with the given outcome
Recorded(ledger, j, outcome) ==
    Has(ledger, ToString(j - 1)) /\ ledger[ToString(j - 1)].is_correct = outcome

RECURSIVE SumTotals(_, _)
SumTotals(tb, keys) ==
    IF keys = {} THEN 0
    ELSE LET K == CHOOSE x \in keys : TRUE
         IN  tb[K].total + SumTotals(tb, keys \ {K})

\* C5: the topic breakdown of results has one bucket per distinct
\* "{subject_abbrev} -> {chapter}" key of the QuestionSet; a bucket's total is
\* the number of questions with the key, answered or not, its correct and
\* incorrect the numbers of those whose ledger record is correct resp.
\* incorrect; so correct + incorrect <= total, and the totals sum to N.
C5_TopicBreakdown ==
    (app = "MP" /\ ResultsDone) =>
      LET qs == resp.questions
          tb == resp.report_data.topic_breakdown
      IN  /\ DOMAIN tb = {KeyOf(qs[j]) : j \in 1..Len(qs)}
          /\ \A K \in DOMAIN tb :
               /\ tb[K].total = Cardinality(InBucket(qs, K))
               /\ tb[K].correct =
                    Cardinality({j \in InBucket(qs, K) : Recorded(resp.ledger, j, TRUE)})
               /\ tb[K].incorrect =
                    Cardinality({j \in InBucket(qs, K) : Recorded(resp.ledger, j, FALSE)})
               /\ tb[K].correct + tb[K].incorrect <= tb[K].total
          /\ SumTotals(tb, DOMAIN tb) = Len(qs)

\* the example: one bucket {1, 1, 2}, another {0, 0, 1}, one unanswered
C5_Witness ==
    /\ app = "MP"
    /\ ResultsDone
    /\ resp.report_data.unanswered_count = 1
    /\ \E K1, K2 \in DOMAIN resp.report_data.topic_breakdown :
         /\ K1 # K2
         /\ resp.report_data.topic_breakdown[K1] =
                [correct |-> 1, incorrect |-> 1, total |-> 2]
         /\ resp.report_data.topic_breakdown[K2] =
                [correct |-> 0, incorrect |-> 0, total |-> 1]

\* C6: the report has correct_count + incorrect_count + unanswered_count =
\* total, none of them negative; incorrect_count is the number of ledger
\* entries whose is_correct is false and unanswered_count the number of
\* question indices with no ledger entry.
C6_CountsAddUp ==
    (app = "MP" /\ ResultsDone) =>
      LET r == resp.report_data
          ledger == resp.ledger
      IN  /\ r.total_questions = Len(resp.questions)
          /\ r.correct_count + r.incorrect_count + r.unanswered_count = r.total_questions
          /\ r.correct_count >= 0 /\ r.incorrect_count >= 0 /\ r.unanswered_count >= 0
          /\ r.incorrect_count =
                Cardinality({key \in DOMAIN ledger : ~ledger[key].is_correct})
          /\ r.unanswered_count =
                Cardinality({i \in Indices(resp.questions) : ~Has(ledger, ToString(i))})

\* a report with a correct, an incorrect and an unanswered question
C6_Witness ==
    /\ app = "MP"
    /\ ResultsDone
    /\ resp.report_data.correct_count >= 1
    /\ resp.report_data.incorrect_count >= 1
    /\ resp.report_data.unanswered_count >= 1

\* C7: results never fails on the division; for total > 0 its accuracy is
\* 100 * correct_count / total, between 0 and 100 (and the reported value is
\* that, rounded to hundredths); for an empty QuestionSet it is 0.
C7_Accuracy ==
    (app = "MP" /\ resp.op = "results" /\ resp.status # "index") =>
      /\ resp.status = "ok"
      /\ LET r == resp.report_data
             total == Len(resp.questions)
         IN  /\ total > 0 =>
                   /\ r.accuracy.num * total = 100 * r.correct_count * r.accuracy.den
                   /\ 0 <= r.accuracy.num
                   /\ r.accuracy.num <= 100 * r.accuracy.den
                   /\ 0 <= r.accuracy_rounded /\ r.accuracy_rounded <= 100 * 100
                   /\ 2 * (r.accuracy_rounded * total - 100 * 100 * r.correct_count) <= total
                   /\ 2 * (100 * 100 * r.correct_count - r.accuracy_rounded * total) <= total
             /\ total = 0 => (r.accuracy.num = 0 /\ r.accuracy_rounded = 0)

\* results on an empty QuestionSet
C7_Witness ==
    /\ app = "MP"
    /\ ResultsDone
    /\ Len(resp.questions) = 0
    /\ resp.report_data.accuracy_rounded = 0

\* C8: in a timed session of N questions at 60 seconds each, every quiz
\* response carries max(0, N*60 - (now - start_time)): never negative, 50 for
\* N = 5 at 250 seconds, 0 at 301, and not more than the response before it
\* in the same session; in an untimed session it carries no remaining time.
C8_RemainingTime ==
    [][ (resp'.op = "quiz" /\ resp'.status = "ok" /\ now' = now) =>
          LET N == Len(session'.questions)
              elapsed == now - session'.start_time
              budget == N * 60
          IN  IF session'.timed_test
              THEN /\ Has(resp', "time_left")
                   /\ resp'.time_left = (IF budget - elapsed > 0 THEN budget - elapsed ELSE 0)
                   /\ resp'.time_left >= 0
                   /\ (N = 5 /\ elapsed = 250) => resp'.time_left = 50
                   /\ (N = 5 /\ elapsed = 301) => resp'.time_left = 0
                   /\ (resp.op = "quiz" /\ Has(resp, "time_left"))
                         => resp'.time_left <= resp.time_left
              ELSE ~Has(resp', "time_left") ]_vars

\* five questions, polled 301 seconds after the start
C8_Witness ==
    /\ Active
    /\ resp.op = "quiz"
    /\ Len(session.questions) = 5
    /\ session.timed_test
    /\ now - session.start_time = 301
    /\ Has(resp, "time_left")
    /\ resp.time_left = 0

\* the size of a subject's built-in pool
PoolSize(subject) ==
    Len(IF app = "MP" THEN MPDefaults(subject) ELSE PFDefaults(subject))

\* how many questions the language model delivered
Delivered(upstream) == IF upstream.failed THEN 0 ELSE Len(upstream.questions)

\* C9: a start with k >= 1 subjects and request N >= 1 builds at most
\* min(N, 30) questions; exactly min(N, 30) when every source call returns at
\* least its requested count; fewer, with no error, when for some subject
\* the upstream result plus the fallback pool is smaller than the count.
C9_QuestionSetLength ==
    (Started /\ Len(resp.selected_subjects) >= 1 /\ resp.form_num >= 1) =>
      LET N == Min(resp.form_num, 30)
          n == Len(session.questions)
          Calls == {resp.calls[j] : j \in 1..Len(resp.calls)}
      IN  /\ n <= N
          /\ (\A c \in Calls : Len(c.result) >= c.count) => n = N
          /\ (\E c \in Calls : Delivered(c.upstream) + PoolSize(c.subject) < c.count)
                => n < N

\* a request above the clamp, fully delivered for three subjects
C9_Witness ==
    /\ Started
    /\ resp.form_num > 30
    /\ Len(resp.selected_subjects) = 3
    /\ Len(session.questions) = 30

\* the first n elements of a list (all of it when shorter)
FirstOf(list, n) == SubSeq(list, 1, Min(n, Len(list)))

\* a subject's built-in pool
PoolOf(subject) == IF app = "MP" THEN MPDefaults(subject) ELSE PFDefaults(subject)

\* the calls of the last start that asked for at least one question
CallsMade == {resp.calls[j] : j \in {i \in 1..Len(resp.calls) : resp.calls[i].count >= 1}}

\* C10 as stated: a call with count >= 1 returns at most count questions; on
\* an upstream failure the first min(count, pool size) defaults; on u < count
\* upstream questions those u followed by the first min(count - u, pool size)
\* defaults; on u >= count the first count of them.
C10_PadsAndTruncates ==
    Started =>
      \A c \in CallsMade :
        /\ Len(c.result) <= c.count
        /\ c.upstream.failed => c.result = FirstOf(PoolOf(c.subject), c.count)
        /\ ~c.upstream.failed =>
             LET u == Len(c.upstream.questions)
             IN  IF u < c.count
                 THEN c.result = c.upstream.questions
                                 \o FirstOf(PoolOf(c.subject), c.count - u)
                 ELSE c.result = FirstOf(c.upstream.questions, c.count)

\* the upstream questions a variant keeps: all of them in MP; in PF those
\* that pass is_question_valid, each with a solution text
Kept(questions, subject) ==
    IF app = "MP" THEN questions
    ELSE LET valid == SelectSeq(questions, LAMBDA q : is_question_valid(q, subject))
         IN  [j \in 1..Len(valid) |-> with_solution(valid[j])]

\* C10, amended: as stated, with the kept upstream questions (v of them) in
\* place of the upstream questions.
C10_PadsAndTruncatesKept ==
    Started =>
      \A c \in CallsMade :
        /\ Len(c.result) <= c.count
        /\ c.upstream.failed => c.result = FirstOf(PoolOf(c.subject), c.count)
        /\ ~c.upstream.failed =>
             LET kept == Kept(c.upstream.questions, c.subject)
                 v == Len(kept)
             IN  IF v < c.count
                 THEN c.result = kept \o FirstOf(PoolOf(c.subject), c.count - v)
                 ELSE c.result = FirstOf(kept, c.count)

\* PF drops an upstream question of the wrong subject and pads with a default
C10_Witness ==
    /\ Started
    /\ app = "PF"
    /\ \E c \in CallsMade :
         /\ ~c.upstream.failed
         /\ Len(c.upstream.questions) >= c.count
         /\ Len(Kept(c.upstream.questions, c.subject)) < c.count
         /\ Len(c.result) = c.count

\* C11: a start whose requested count is <= 0 adds no question for any
\* selected subject: the stored question list is empty, whatever the
\* language model or the built-in pools would return.
C11_NonPositiveRequestEmpty ==
    (Started /\ resp.form_num <= 0) => session.questions = << >>

\* C11 in the MP variant alone, where a count <= 0 makes no source call
C11_HoldsInMP == app = "MP" => C11_NonPositiveRequestEmpty

\* the answer ledger is in the session (user_answers in MP, answered in PF)
LedgerAvailable == Has(session, "user_answers") \/ Has(session, "answered")

\* how often x occurs in the list s
Occurrences(s, x) == Cardinality({j \in 1..Len(s) : s[j] = x})

\* the lists a and b hold the same elements, each as often
SameMultiset(a, b) ==
    /\ Len(a) = Len(b)
    /\ \A j \in 1..Len(a) : Occurrences(a, a[j]) = Occurrences(b, a[j])

\* C12: a finished results request leaves neither questions nor ledger in
\* the session; from a state without them no request other than a session
\* start brings either back; and the step that makes the session Active is a
\* session start whose question list is the one it has just built.
C12_NoFinishedToActive ==
    [][ /\ (resp'.op = "results" /\ resp'.status = "ok")
             => (~Active' /\ ~LedgerAvailable')
        /\ (~Active /\ ~LedgerAvailable /\ ~Started')
             => (~Active' /\ ~LedgerAvailable')
        /\ (~Active /\ Active')
             => (Started' /\ SameMultiset(session'.questions, resp'.built)) ]_vars

\* a finished MP session ('score' is still there) that was then polled by quiz
C12_Witness ==
    /\ app = "MP"
    /\ ~Active
    /\ Has(session, "score")
    /\ resp.op = "quiz"
    /\ resp.status = "index"

\* the session is the fresh one of the start the response reports
FreshSession ==
      /\ SameMultiset(session.questions, resp.built)
      /\ Has(session, "score") /\ session.score = 0
      /\ session.start_time = now
      /\ app = "MP" =>
           /\ Has(session, "user_answers") /\ session.user_answers = EmptyDict
           /\ report_of(session.questions, Get(session, "user_answers", EmptyDict),
                        "Guest", 0).score = 0
      /\ app = "PF" =>
           /\ Has(session, "answered")
           /\ session.answered = [j \in 1..Len(session.questions) |-> FALSE]

\* C13: every successful session start, whatever the session held before,
\* leaves the session with the question list just built, an empty ledger,
\* score 0 and start_time equal to the current time, so that results run on
\* it would count no answer.
C13_StartResets ==
    [][ (Started' /\ now' = now) => FreshSession' ]_vars

\* a start, later than time 0, over a session that had recorded answers
C13_Witness ==
    /\ Started
    /\ resp.prior = "answered"
    /\ now > 0
    /\ session.start_time = now

\* C14: after a finished results request none of the session boundary
\* fields questions, score, start_time, timed_test, user_answers is left in
\* the session.
C14_BoundaryFieldsCleared ==
    ResultsDone =>
      {"questions", "score", "start_time", "timed_test", "user_answers"}
          \cap DOMAIN session = {}

\* C14 in the PF variant alone, where results ends with session.clear()
C14_HoldsInPF == app = "PF" => C14_BoundaryFieldsCleared

\* C14 for the four fields that MP's results pops
C14_PoppedFieldsCleared ==
    ResultsDone =>
      {"questions", "start_time", "timed_test", "user_answers"} \cap DOMAIN session = {}

\* a timed Active session whose remaining time is 0
Expired ==
    /\ Active
    /\ session.timed_test
    /\ now - session.start_time >= Len(session.questions) * 60

\* the check_answer request of the step addressed an existing question
ValidSubmission ==
    /\ resp'.op = "check_answer"
    /\ IF app = "MP"
       THEN /\ Has(resp'.data, "question_index")
            /\ resp'.data.question_index \in Indices(session.questions)
       ELSE session.current_question \in Indices(session.questions)

\* the ledger after the step holds the submission of the step
SubmissionRecorded ==
    IF app = "MP"
    THEN LET key == ToString(resp'.data.question_index)
         IN  /\ Has(session'.user_answers, key)
             /\ session'.user_answers[key].user_answer = resp'.data.selected_option
    ELSE session'.answered[session.current_question + 1]

\* C15: the passing of time, up to and past the moment the remaining time
\* of a timed Active session becomes 0, changes nothing in the session; and
\* in a timed Active session whose remaining time is 0, quiz, check_answer and set_question
\* leave it Active; a check_answer for an existing question succeeds and
\* records the answer; and the session is finished only by a results
\* request (the one other step that ends it, MP's continue_as_guest,
\* discards it for a new identity without finishing it).
C15_ExpiryIsPolled ==
    [][ /\ (Active /\ now' # now) => (session' = session)
        /\ Expired =>
          /\ resp'.op \in {"quiz", "check_answer", "set_question"} => Active'
          /\ ValidSubmission => (resp'.status = "ok" /\ Active' /\ SubmissionRecorded)
          /\ (~Active' /\ resp'.op # "continue_as_guest")
                => (resp'.op = "results" /\ resp'.status = "ok") ]_vars

\* PF reports the remaining time with the verdict: an answer accepted at 0
C15_Witness ==
    /\ Expired
    /\ resp.op = "check_answer"
    /\ resp.status = "ok"
    /\ Has(resp, "time_left")
    /\ resp.time_left = 0

\* the step is a results request of a logged-in user on an Active session
\* (the account still exists, so the hook does not clear the session)
UserResultsStep ==
    /\ app = "MP"
    /\ Active
    /\ Has(session, "user_id")
    /\ resp'.op = "results"
    /\ resp'.status # "index"

\* C16: when results runs for a logged-in user, the score, the total and the
\* report data are those computed from the questions and the ledger, and the
\* session loses its quiz fields, whether the write to the document store
\* succeeds or fails.
C16_PersistenceFailureHarmless ==
    [][ UserResultsStep =>
          LET expected == report_of(session.questions, session.user_answers,
                                    EmailOf(session.user_id),
                                    now - session.start_time)
          IN  /\ resp'.status = "ok"
              /\ resp'.report_data = expected
              /\ resp'.score = expected.score
              /\ resp'.total = Len(session.questions)
              /\ session' = [k \in DOMAIN session \ {"questions", "user_answers",
                                                    "start_time", "timed_test"}
                               |-> session[k]] ]_vars

\* a logged-in user's results with a recorded answer, the write having failed
C16_Witness ==
    /\ ResultsDone
    /\ app = "MP"
    /\ Has(session, "user_id")
    /\ ~resp.saved
    /\ resp.ledger # EmptyDict

\* the number of questions returned by the calls before call j
RECURSIVE Offset(_, _)
Offset(calls, j) == IF j <= 1 THEN 0 ELSE Offset(calls, j - 1) + Len(calls[j - 1].result)

\* built is the per-subject results one after the other, in call order (in
\* MP each with its subject)
Concatenated(calls, built) ==
    /\ Len(built) = Offset(calls, Len(calls) + 1)
    /\ \A j \in 1..Len(calls) : \A i \in 1..Len(calls[j].result) :
         LET q == built[Offset(calls, j) + i]
             r == calls[j].result[i]
         IN  /\ \A key \in DOMAIN r : q[key] = r[key]
             /\ app = "MP" => q.subject = calls[j].subject

\* the stored list is a permutation of the per-subject results
ShuffledOnce ==
    /\ Concatenated(resp.calls, resp.built)
    /\ SameMultiset(session.questions, resp.built)

\* C17: a session start stores a permutation of the concatenated per-subject
\* question lists (same length, same multiset), and no later step of the
\* Active session changes the stored list or its order.
C17_ShuffledOnce ==
    [][ /\ Started' => ShuffledOnce'
        /\ (Active /\ Active' /\ ~Started') => session'.questions = session.questions
      ]_vars

\* two subjects' questions stored in another order than they were built, and
\* still so after an answer
C17_Witness ==
    /\ Active
    /\ Len(session.questions) >= 2
    /\ \E i, j \in 1..Len(session.questions) :
         /\ i < j
         /\ session.questions[i].question = {"train", "km", "hour"}
         /\ session.questions[j].question = {"synonym"}
    /\ resp.op = "check_answer"
    /\ resp.status = "ok"

\* the dictionaries a and b have the same keys and agree outside keys
SameExcept(a, b, keys) ==
    /\ DOMAIN a = DOMAIN b
    /\ \A k \in DOMAIN a \ keys : a[k] = b[k]

\* the lists a and b have the same length and agree outside position p
SameListExcept(a, b, p) ==
    /\ Len(a) = Len(b)
    /\ \A j \in 1..Len(a) : j # p => a[j] = b[j]

\* the list position PF's handlers address with current_question (a negative
\* index counts from the end)
CurrentPos ==
    IF session.current_question >= 0
    THEN session.current_question + 1
    ELSE Len(session.questions) + session.current_question + 1

\* the step is a request, not a session start, on a session Active before
\* and after it
ActiveStep == Active /\ Active' /\ ~Started'

\* questions, start_time and the timed flag are as they were
QuizFieldsKept ==
    /\ session'.questions = session.questions
    /\ session'.start_time = session.start_time
    /\ session'.timed_test = session.timed_test

\* MP's check_answer leaves everything but the ledger entry of the submitted
\* index, and a rejected check_answer leaves everything
OnlySubmittedEntry ==
    IF resp'.status = "ok"
    THEN /\ SameExcept(session', session, {"user_answers"})
         /\ SameExcept(session'.user_answers,
                       ToString(resp'.data.question_index) :> None @@ session.user_answers,
                       {ToString(resp'.data.question_index)})
    ELSE session' = session

\* C18 as stated: in an Active session no request other than a session start
\* changes questions, start_time or the timed flag; quiz leaves the whole
\* session unchanged; check_answer changes nothing except the ledger entry
\* at the submitted index (in PF: the answered flag of the current question).
C18_FrameAsStated ==
    [][ ActiveStep =>
          /\ QuizFieldsKept
          /\ resp'.op = "quiz" => session' = session
          /\ resp'.op = "check_answer" =>
               IF app = "MP" THEN OnlySubmittedEntry
               ELSE /\ SameExcept(session', session, {"answered"})
                    /\ SameListExcept(session'.answered, session.answered,
                                      CurrentPos) ]_vars

\* C18, amended: as stated for MP; in PF quiz changes nothing but the visited
\* flag of the current question, and check_answer nothing but the answered
\* flag of the current question, the running score and the current question.
C18_Frame ==
    [][ ActiveStep =>
          /\ QuizFieldsKept
          /\ resp'.op = "quiz" =>
               IF app = "MP" THEN session' = session
               ELSE /\ SameExcept(session', session, {"visited"})
                    /\ SameListExcept(session'.visited, session.visited,
                                      CurrentPos)
          /\ resp'.op = "check_answer" =>
               IF app = "MP" THEN OnlySubmittedEntry
               ELSE /\ SameExcept(session', session,
                                  {"answered", "score", "current_question"})
                    /\ SameListExcept(session'.answered, session.answered,
                                      CurrentPos) ]_vars

\* PF's quiz has marked the question it shows as visited
C18_Witness ==
    /\ app = "PF"
    /\ Active
    /\ resp.op = "quiz"
    /\ resp.status = "ok"
    /\ session.visited[resp.question_num]
    /\ ~session.answered[resp.question_num]

\* the indices (from 0) the ledger has a record for
AnsweredSet ==
    IF app = "MP"
    THEN {i \in -1..Len(session.questions) : Has(session.user_answers, ToString(i))}
    ELSE {j - 1 : j \in {p \in 1..Len(session.answered) : session.answered[p]}}

\* the ledger has entries for indices of the question list only: in MP every
\* key is the decimal form of an index and holds one full record, in PF
\* there is one flag per question
LedgerWellFormed ==
    /\ AnsweredSet \subseteq Indices(session.questions)
    /\ IF app = "MP"
       THEN /\ DOMAIN session.user_answers
                 = {ToString(i) : i \in AnsweredSet}
            /\ \A k \in DOMAIN session.user_answers :
                 DOMAIN session.user_answers[k] = {"user_answer", "is_correct"}
       ELSE Len(session.answered) = Len(session.questions)

\* the index a check_answer step submits
SubmittedIndex ==
    IF app = "MP" THEN resp'.data.question_index ELSE CurrentPos - 1

\* C19: in every Active state the answered indices are indices of the
\* question list, one record each and none for an unanswered index; a
\* successful check_answer(i) makes the set the previous set plus i, and no
\* other step of the Active session changes the set.
C19_LedgerGrows ==
    [][ /\ Active' => LedgerWellFormed'
        /\ ActiveStep =>
             IF resp'.op = "check_answer" /\ resp'.status = "ok"
             THEN AnsweredSet' = AnsweredSet \cup {SubmittedIndex}
             ELSE AnsweredSet' = AnsweredSet ]_vars

\* two of three questions answered, the last request an accepted answer
C19_Witness ==
    /\ app = "MP"
    /\ Active
    /\ Len(session.questions) = 3
    /\ Cardinality(AnsweredSet) = 2
    /\ resp.op = "check_answer"
    /\ resp.status = "ok"

\* PF: the running score is at most the number of questions marked answered
\* (and so at most the number of questions)
C20_ScoreBounded ==
    (app = "PF" /\ Active /\ Len(session.questions) >= 1) =>
      /\ session.score <= CountTrue(session.answered)
      /\ session.score <= Len(session.questions)

\* PF: the current question index is an index of the question list
C20_IndexInRange ==
    (app = "PF" /\ Active /\ Len(session.questions) >= 1) =>
      session.current_question \in Indices(session.questions)

\* C20: in the PF variant, in every state of an Active session with N >= 1
\* questions reached by quiz, check_answer and set_question requests, the
\* running score is at most the number of questions marked answered (and so
\* at most N) and the current question index is within 0..N-1.
C20_ScoreAndIndexBounded == C20_ScoreBounded /\ C20_IndexInRange

\* the session names a caller: a logged-in user or a guest
Identified == Has(session, "user_id") \/ Has(session, "guest_id")

\* MP: a POST to index from a session that names no caller is redirected to
\* login and leaves the session as it was
C21_UnidentifiedStartRedirected ==
    [][ (app = "MP" /\ ~Identified /\ resp'.op = "index")
          => (resp'.status = "login" /\ session' = session) ]_vars

\* MP: a session that holds questions names a caller
C21_ActiveIsIdentified == (app = "MP" /\ Active) => Identified

\* C21: in the MP variant, whatever the interleaving of signup, login,
\* continue_as_guest, logout, deletion of the account and session starts,
\* every state whose session holds questions also holds a user_id or a
\* guest_id, and a POST to index from a session that names no caller is
\* redirected to login and creates no quiz state.
C21_ActiveOnlyForIdentifiedCaller ==
    [][ /\ (app = "MP" /\ Active') => Identified'
        /\ (app = "MP" /\ ~Identified /\ resp'.op = "index")
             => (resp'.status = "login" /\ session' = session) ]_vars

====
